---------------------------- MODULE Spec2Model ----------------------------
(***************************************************************************)
(* Model of parse_input and infer_sport of sportaki_tv_week_converter.py.  *)
(*                                                                         *)
(* A line of text is a TLA+ string; TLC evaluates Len, SubSeq and \o on    *)
(* strings, so the regular expressions, strip, normalize_spaces, lower,    *)
(* int and strftime are computed character by character.  Indices into     *)
(* `lines` are 0-based as in the source (lines[k] is Line(k)).             *)
(*                                                                         *)
(* TLC keeps only the low byte of each character of a string it writes to  *)
(* its state queue, while equality of strings is unaffected.  The input    *)
(* texts of the specifications are therefore ASCII; the Greek strings of   *)
(* the program (sports, warnings) occur in states as whole values that     *)
(* are compared and never taken apart.                                     *)
(***************************************************************************)
EXTENDS Integers, Sequences, FiniteSets, TLC

VARIABLES
    lines,             \* text.splitlines(): the lines, without terminators
    seed,              \* athens_now().year, the same for every call
    pc,                \* "loop", "returned" or "raised"
    i,                 \* the cursor of the main loop
    base_year,         \* the inferred year
    last_month,        \* the month of the last date line, or None
    current_date_key,  \* the current day's key, or NoDate
    schedule,          \* dict: date key -> list of events
    warnings,          \* list of warning strings
    scanned,           \* history: the cursor values of the iterations so far
    blocks,            \* history: the line indices of each recorded block
    calls,             \* number of calls of parse_input so far
    prev,              \* what the previous call returned
    args,              \* (channel, match, comp) of a call of infer_sport
    ret                \* what that call returned

vars == <<lines, seed, pc, i, base_year, last_month, current_date_key,
          schedule, warnings, scanned, blocks, calls, prev, args, ret>>

(***************************************************************************)
(* Bounds of the model.                                                    *)
(***************************************************************************)
\* largest number of lines of an input text built line by line
MaxLines == 6
\* largest number of blocks of an input text built block by block
MaxBlocks == 4
\* largest number of parse_input calls on the same text (re-invocation)
MaxCalls == 2

(***************************************************************************)
(* Python values.                                                          *)
(***************************************************************************)
\* None for an int-valued local (last_month, a next_nonempty result): no
\* month parsed from \d{1,2} and no line index is negative.
None == -1

\* None for current_date_key: never the result of strftime("%Y-%m-%d").
NoDate == "None"

(***************************************************************************)
(* Characters and strings.                                                 *)
(***************************************************************************)
Char(s, k) == SubSeq(s, k, k)

\* the whitespace characters of the modelled alphabet (\s, str.strip)
IsSpace(c) == c \in {" ", "\t"}

\* \d and [0-9]
IsDigit(c) == c \in {"0", "1", "2", "3", "4", "5", "6", "7", "8", "9"}

DigitVal(c) ==
    CASE c = "0" -> 0 [] c = "1" -> 1 [] c = "2" -> 2 [] c = "3" -> 3
      [] c = "4" -> 4 [] c = "5" -> 5 [] c = "6" -> 6 [] c = "7" -> 7
      [] c = "8" -> 8 [] c = "9" -> 9

SetMin(S) == CHOOSE m \in S : \A n \in S : m <= n

SetMax(S) == CHOOSE m \in S : \A n \in S : n <= m

\* str.strip(): drop leading and trailing whitespace
strip(s) ==
    IF s = "" \/ (~IsSpace(Char(s, 1)) /\ ~IsSpace(Char(s, Len(s)))) THEN s
    ELSE LET keep == {k \in 1..Len(s) : ~IsSpace(Char(s, k))}
         IN  IF keep = {} THEN ""
             ELSE SubSeq(s, SetMin(keep), SetMax(keep))

\* re.sub(r"\s+", " ", t): every maximal run of whitespace becomes one space
RECURSIVE CollapseSpaces(_)
CollapseSpaces(t) ==
    IF t = "" THEN ""
    ELSE IF IsSpace(Char(t, 1))
         THEN IF Len(t) >= 2 /\ IsSpace(Char(t, 2))
              THEN CollapseSpaces(SubSeq(t, 2, Len(t)))
              ELSE " " \o CollapseSpaces(SubSeq(t, 2, Len(t)))
         ELSE Char(t, 1) \o CollapseSpaces(SubSeq(t, 2, Len(t)))

normalize_spaces(s) == CollapseSpaces(strip(s))

\* int(s) for a string of decimal digits
RECURSIVE int(_)
int(s) ==
    IF Len(s) = 1 THEN DigitVal(s)
    ELSE 10 * int(SubSeq(s, 1, Len(s) - 1)) + DigitVal(Char(s, Len(s)))

AllDigits(s) == Len(s) >= 1 /\ \A k \in 1..Len(s) : IsDigit(Char(s, k))

\* the positions of character c in s
Positions(s, c) == {k \in 1..Len(s) : Char(s, k) = c}

(***************************************************************************)
(* TIME_RE = ^\s*(?:[01]\d|2[0-3]):[0-5]\d\s*$                             *)
(* DATE_RE = ^\s*(\d{1,2})/(\d{1,2})\s*$                                   *)
(* Leading and trailing \s* are matched by stripping first.                *)
(***************************************************************************)
TIME_RE(s) ==
    LET t == strip(s)
    IN  /\ Len(t) = 5
        /\ \/ Char(t, 1) \in {"0", "1"} /\ IsDigit(Char(t, 2))
           \/ Char(t, 1) = "2" /\ Char(t, 2) \in {"0", "1", "2", "3"}
        /\ Char(t, 3) = ":"
        /\ Char(t, 4) \in {"0", "1", "2", "3", "4", "5"}
        /\ IsDigit(Char(t, 5))

DATE_RE(s) ==
    LET t == strip(s)
        p == Positions(t, "/")
    IN  /\ Len(t) >= 3 /\ Len(t) <= 5
        /\ Cardinality(p) = 1
        /\ LET q == SetMin(p)
           IN  /\ q - 1 \in {1, 2}
               /\ Len(t) - q \in {1, 2}
               /\ AllDigits(SubSeq(t, 1, q - 1))
               /\ AllDigits(SubSeq(t, q + 1, Len(t)))

\* mdate.group(1) and mdate.group(2) of a line that matches DATE_RE
DateGroup1(s) ==
    LET t == strip(s) IN SubSeq(t, 1, SetMin(Positions(t, "/")) - 1)

DateGroup2(s) ==
    LET t == strip(s) IN SubSeq(t, SetMin(Positions(t, "/")) + 1, Len(t))

(***************************************************************************)
(* datetime(year, month, day) and strftime("%Y-%m-%d").                    *)
(***************************************************************************)
\* DaysInMonth without the calendar: every month has 31 days
DaysAlways31(y, m) == 31

IsLeap(y) == (y % 4 = 0 /\ y % 100 # 0) \/ y % 400 = 0

DaysInMonth(y, m) ==
    IF m = 2 THEN (IF IsLeap(y) THEN 29 ELSE 28)
    ELSE IF m \in {4, 6, 9, 11} THEN 30 ELSE 31

\* datetime(y, m, d) does not raise ValueError
ValidDate(y, m, d) ==
    /\ y >= 1 /\ y <= 9999
    /\ m >= 1 /\ m <= 12
    /\ d >= 1 /\ d <= DaysInMonth(y, m)

DigitStr(n) == Char("0123456789", n + 1)

\* the decimal digits of n, zero-padded to width w
RECURSIVE Pad(_, _)
Pad(n, w) ==
    IF w <= 1 /\ n < 10 THEN DigitStr(n)
    ELSE Pad(n \div 10, w - 1) \o DigitStr(n % 10)

strftime(y, m, d) == Pad(y, 4) \o "-" \o Pad(m, 2) \o "-" \o Pad(d, 2)

\* time_key(t): t.split(":") then int() of both parts
time_key(t) ==
    LET q == SetMin(Positions(t, ":"))
    IN  <<int(SubSeq(t, 1, q - 1)), int(SubSeq(t, q + 1, Len(t)))>>

\* time_key(t) raises (wrong number of parts, or int() of a non-number)
TimeKeyRaises(t) ==
    LET p == Positions(t, ":")
    IN  \/ Cardinality(p) # 1
        \/ ~AllDigits(SubSeq(t, 1, SetMin(p) - 1))
        \/ ~AllDigits(SubSeq(t, SetMin(p) + 1, Len(t)))

(***************************************************************************)
(* str.lower() on the modelled alphabet: Latin and Greek capitals; every   *)
(* other character is its own lower case.  (Python lowers a word-final     *)
(* capital sigma to the final form; no keyword contains a sigma, so the    *)
(* substring test below cannot tell the two forms apart.)                  *)
(***************************************************************************)
UpperChars == "ABCDEFGHIJKLMNOPQRSTUVWXYZΑΒΓΔΕΖΗΘΙΚΛΜΝΞΟΠΡΣΤΥΦΧΨΩΆΈΉΊΌΎΏΪΫ"

LowerChars == "abcdefghijklmnopqrstuvwxyzαβγδεζηθικλμνξοπρστυφχψωάέήίόύώϊϋ"

LowerChar(c) ==
    LET p == Positions(UpperChars, c)
    IN  IF p = {} THEN c ELSE Char(LowerChars, SetMin(p))

RECURSIVE lower(_)
lower(s) ==
    IF s = "" THEN "" ELSE LowerChar(Char(s, 1)) \o lower(SubSeq(s, 2, Len(s)))

\* Python's `k in hay` for strings: k is a substring of hay
Contains(hay, k) ==
    \E p \in 1..(Len(hay) - Len(k) + 1) : SubSeq(hay, p, p + Len(k) - 1) = k

(***************************************************************************)
(* The tables.                                                             *)
(***************************************************************************)
SPORT_LINE_SET ==
    {"Ποδόσφαιρο", "Μπάσκετ", "Τένις", "Βόλεϊ", "Χάντμπολ",
     "Αμερικανικό Ποδόσφαιρο", "American Football", "Εκπομπή"}

SPORT_KEYWORDS ==
    << <<"Τένις",
         <<"ATP", "WTA", "United Cup", "Grand Slam", "Challenger", "ITF",
           "Davis Cup", "Billie Jean King">> >>,
       <<"Βόλεϊ",
         <<"Volley", "CEV", "Volleyball", "Challenge Cup", "Champions League",
           "CEV Cup", "Volley League">> >>,
       <<"Μπάσκετ",
         <<"NBA", "Euroleague", "EuroLeague", "Eurocup", "EuroCup",
           "ACB", "GBL", "Basket", "FIBA", "BCL", "Stoiximan GBL",
           "Lega Basket">> >>,
       <<"Ποδόσφαιρο",
         <<"Super League", "Premier League", "La Liga", "Serie A",
           "Bundesliga", "Ligue", "FA Cup", "Coppa Italia",
           "Conference League", "Europa", "Champions League",
           "Eredivisie", "Liga Portugal", "Cup", "Κύπελλο", "Λιγκ Καπ",
           "League Cup", "Saudi", "Roshn", "Cyprus League">> >>,
       <<"Αμερικανικό Ποδόσφαιρο",
         <<"NFL", "American Football", "Steelers", "Texans", "Playoffs">> >>,
       <<"Χάντμπολ",
         <<"Χάντμπολ", "Handball", "Ευρωπαϊκό Πρωτάθλημα Ανδρών">> >>,
       <<"Εκπομπή",
         <<"Εκπομπή", "Show", "Pre Game", "Post Game", "Sportshow",
           "Playmakers", "Monday Football Club", "Matchday Live",
           "Minute by Minute", "OnlyFacts", "BIG 4", "Box2Box",
           "Game Night", "Give And Go", "MIND Game", "Pelota", "Pick n",
           "On Fire">> >> >>

\* k.lower() for every key k of a key list, in order
RECURSIVE LowerAll(_)
LowerAll(keys) ==
    IF keys = <<>> THEN <<>>
    ELSE <<lower(Head(keys))>> \o LowerAll(Tail(keys))

\* the key lists of the entries of a table, lower-cased, in table order
RECURSIVE LowerTable(_)
LowerTable(table) ==
    IF table = <<>> THEN <<>>
    ELSE <<LowerAll(Head(table)[2])>> \o LowerTable(Tail(table))

\* KeysLower of a table whose second entry does not list Champions League
KeysWithoutChampions ==
    LET t == LowerTable(SPORT_KEYWORDS)
    IN  [e \in 1..Len(t) |->
            IF e = 2 THEN SelectSeq(t[e], LAMBDA k : k # "champions league")
            ELSE t[e]]

KeysLower == LowerTable(SPORT_KEYWORDS)

\* hay = f"{channel} {match} {comp}"
Haystack(channel, match, comp) == channel \o " " \o match \o " " \o comp

\* `for k in keys: if k.lower() in hay.lower()` succeeds for entry e, where
\* hayLower is hay.lower()
EntryMatches(e, hayLower) ==
    \E k \in 1..Len(KeysLower[e]) : Contains(hayLower, KeysLower[e][k])

\* FirstMatch that keeps looking after a hit: the last matching entry wins
RECURSIVE LastMatch(_, _)
LastMatch(e, hayLower) ==
    IF e > Len(SPORT_KEYWORDS) THEN ""
    ELSE LET later == LastMatch(e + 1, hayLower)
         IN  IF later # "" THEN later
             ELSE IF EntryMatches(e, hayLower) THEN SPORT_KEYWORDS[e][1]
                  ELSE ""

\* `for sport, keys in SPORT_KEYWORDS` from entry e on: the sport of the
\* first entry that matches, "" when the loop runs out
RECURSIVE FirstMatch(_, _)
FirstMatch(e, hayLower) ==
    IF e > Len(SPORT_KEYWORDS) THEN ""
    ELSE IF EntryMatches(e, hayLower) THEN SPORT_KEYWORDS[e][1]
         ELSE FirstMatch(e + 1, hayLower)

infer_sport(channel, match, comp) ==
    FirstMatch(1, lower(Haystack(channel, match, comp)))

(***************************************************************************)
(* parse_input: the locals and the helpers of the main loop.               *)
(***************************************************************************)
\* lines[k], k counted from 0
Line(k) == lines[k + 1]

NLines == Len(lines)

\* ln = lines[i].strip()
ln == strip(Line(i))

\* next_nonempty that does not skip blank lines
next_line(idx) == IF idx < NLines THEN idx ELSE None

\* next_nonempty(idx): the index j of the first line at or after idx whose
\* strip() is not empty (the pair's text is strip(Line(j))), or None
next_nonempty(idx) ==
    LET cand == {j \in idx..(NLines - 1) : strip(Line(j)) # ""}
    IN  IF cand = {} THEN None ELSE SetMin(cand)

\* n1, n2, n3 and n4 of the iteration whose cursor is i
N1 == next_nonempty(i + 1)

N2 == next_nonempty(IF N1 # None THEN N1 + 1 ELSE i + 1)

N3 == next_nonempty(IF N2 # None THEN N2 + 1 ELSE i + 1)

N4 == next_nonempty(N3 + 1)

\* n1 and n2 and n3
HasBlock == N1 # None /\ N2 # None /\ N3 # None

\* RolledYear with <= for <: a repeated month rolls the year too
RolledYearOnEqual(year, lastMonth, mm) ==
    IF lastMonth # None /\ mm <= lastMonth THEN year + 1 ELSE year

\* RolledYear that looks at calendar months only
RolledYearInCalendar(year, lastMonth, mm) ==
    IF lastMonth # None /\ mm < lastMonth /\ mm >= 1 /\ mm <= 12
    THEN year + 1 ELSE year

\* base_year after the rollover heuristic has seen month mm
RolledYear(year, lastMonth, mm) ==
    IF lastMonth # None /\ mm < lastMonth THEN year + 1 ELSE year

\* schedule.setdefault(key, []) leaves an existing list alone
setdefault(sched, key) ==
    IF key \in DOMAIN sched THEN sched ELSE sched @@ (key :> <<>>)

\* DayEntered that adds nothing: a day appears with its first event only
DayNotEntered(sched, key) == sched

\* DayEntered as an assignment: schedule[key] = [] empties a day met again
DayReset(sched, key) == (key :> <<>>) @@ sched

\* line 123: the day of a date line gets an entry, empty if it is new
DayEntered(sched, key) == setdefault(sched, key)

\* WithEvent that appends to some day of the schedule, not to the day given
WithEventAnyDay(sched, key, ev) ==
    LET s0 == setdefault(sched, key)
        some == CHOOSE dk \in DOMAIN s0 : TRUE
    IN  [s0 EXCEPT ![some] = Append(@, ev)]

\* line 187: the event is appended to its day's list
WithEvent(sched, key, ev) ==
    LET s0 == setdefault(sched, key)
    IN  [s0 EXCEPT ![key] = Append(@, ev)]

\* the sport line test of the optional fourth line
IsSportLine(maybe_sport) ==
    /\ maybe_sport \in SPORT_LINE_SET
    /\ ~TIME_RE(maybe_sport)
    /\ ~DATE_RE(maybe_sport)

\* ExplicitSport without normalize_spaces on the fourth line
ExplicitSportRaw == N4 # None /\ IsSportLine(strip(Line(N4)))

\* the fourth line exists and is consumed as the explicit sport
ExplicitSport == N4 # None /\ IsSportLine(normalize_spaces(strip(Line(N4))))

\* CursorAfterBlock that never moves past the fourth line
CursorAfterComp(n3, n4, explicit) == n3 + 1

\* the cursor after a recorded block: past n4 when consumed, else past n3
CursorAfterBlock(n3, n4, explicit) == IF explicit THEN n4 + 1 ELSE n3 + 1

\* CursorAfterLine without the increment
CursorStuck(cur) == cur

\* the cursor after an iteration that handles one line only
CursorAfterLine(cur) == cur + 1

\* Event(...) of the block at the cursor; `line` is history, the index of
\* the block's time line
NewEvent(sport) ==
    [date_key |-> current_date_key,
     time     |-> normalize_spaces(ln),
     channel  |-> normalize_spaces(strip(Line(N1))),
     match    |-> normalize_spaces(strip(Line(N2))),
     comp     |-> normalize_spaces(strip(Line(N3))),
     sport    |-> sport,
     line     |-> i]

\* the sport of the block at the cursor
BlockSport ==
    IF ExplicitSport THEN normalize_spaces(strip(Line(N4)))
    ELSE infer_sport(normalize_spaces(strip(Line(N1))),
                     normalize_spaces(strip(Line(N2))),
                     normalize_spaces(strip(Line(N3))))

DateWarning(text) == "Αδυναμία δημιουργίας ημερομηνίας από: " \o text

MissingWarning(time_str, key) ==
    "Λείπουν γραμμές μετά την ώρα " \o time_str \o " στη μέρα " \o key

(***************************************************************************)
(* The post-pass: list.sort(key=time_key) is a stable sort.                *)
(***************************************************************************)
\* KeyLeq with the comparison strict: equal keys change places
KeyLess(a, b) == a[1] < b[1] \/ (a[1] = b[1] /\ a[2] < b[2])

\* tuple comparison a <= b of two (hour, minute) keys
KeyLeq(a, b) == a[1] < b[1] \/ (a[1] = b[1] /\ a[2] <= b[2])

\* e placed after every event of the sorted list `sorted` whose key is <=
RECURSIVE InsertByTime(_, _)
InsertByTime(e, sorted) ==
    IF sorted = <<>> THEN <<e>>
    ELSE IF KeyLeq(time_key(Head(sorted).time), time_key(e.time))
         THEN <<Head(sorted)>> \o InsertByTime(e, Tail(sorted))
         ELSE <<e>> \o sorted

RECURSIVE SortFrom(_, _)
SortFrom(evs, sorted) ==
    IF evs = <<>> THEN sorted
    ELSE SortFrom(Tail(evs), InsertByTime(Head(evs), sorted))

\* evs.sort(key=lambda e: time_key(e.time))
SortByTime(evs) == SortFrom(evs, <<>>)

\* some time_key call of the post-pass raises
SortRaises == \E dk \in DOMAIN schedule : \E k \in 1..Len(schedule[dk]) :
                  TimeKeyRaises(schedule[dk][k].time)

(***************************************************************************)
(* The iterations of `while i < len(lines)`, one action per branch.        *)
(***************************************************************************)
InLoop == pc = "loop" /\ i < NLines

\* the loop condition is false
LoopDone == pc = "loop" /\ ~(i < NLines)

\* the conditions of the branches of an iteration, in the order of the code
AtBlank == InLoop /\ ln = ""

AtDate == InLoop /\ ln # "" /\ DATE_RE(ln)

AtNoDate == InLoop /\ ln # "" /\ ~DATE_RE(ln) /\ current_date_key = NoDate

AtTime ==
    /\ InLoop
    /\ ln # ""
    /\ ~DATE_RE(ln)
    /\ current_date_key # NoDate
    /\ TIME_RE(ln)

AtOther ==
    /\ InLoop
    /\ ln # ""
    /\ ~DATE_RE(ln)
    /\ current_date_key # NoDate
    /\ ~TIME_RE(ln)

\* what an iteration that handles one line and records nothing changes
StepOver ==
    /\ i' = CursorAfterLine(i)
    /\ scanned' = Append(scanned, i)
    /\ UNCHANGED <<lines, seed, pc, blocks, calls, prev, args, ret>>

\* if not ln: i += 1
BlankLine ==
    /\ AtBlank
    /\ StepOver
    /\ UNCHANGED <<base_year, last_month, current_date_key, schedule, warnings>>

\* a date line whose date is built
DateBuilt ==
    /\ AtDate
    /\ LET dd == int(DateGroup1(ln))
           mm == int(DateGroup2(ln))
           year == RolledYear(base_year, last_month, mm)
       IN  /\ ValidDate(year, mm, dd)
           /\ base_year' = year
           /\ last_month' = mm
           /\ current_date_key' = strftime(year, mm, dd)
           /\ schedule' = DayEntered(schedule, strftime(year, mm, dd))
    /\ StepOver
    /\ UNCHANGED warnings

\* a date line for which datetime(...) raises
DateFailed ==
    /\ AtDate
    /\ LET dd == int(DateGroup1(ln))
           mm == int(DateGroup2(ln))
           year == RolledYear(base_year, last_month, mm)
       IN  /\ ~ValidDate(year, mm, dd)
           /\ base_year' = year
           /\ last_month' = mm
    /\ warnings' = Append(warnings, DateWarning(ln))
    /\ current_date_key' = NoDate
    /\ StepOver
    /\ UNCHANGED schedule

\* if current_date_key is None: i += 1
NoDateSkip ==
    /\ AtNoDate
    /\ StepOver
    /\ UNCHANGED <<base_year, last_month, current_date_key, schedule, warnings>>

\* a time line not followed by three non-blank lines
TimeIncomplete ==
    /\ AtTime
    /\ ~HasBlock
    /\ warnings' = Append(warnings,
                          MissingWarning(normalize_spaces(ln), current_date_key))
    /\ StepOver
    /\ UNCHANGED <<base_year, last_month, current_date_key, schedule>>

\* a time line followed by channel, match and comp: one event is recorded
EventBlock ==
    /\ AtTime
    /\ HasBlock
    /\ i' = CursorAfterBlock(N3, N4, ExplicitSport)
    /\ schedule' = WithEvent(schedule, current_date_key, NewEvent(BlockSport))
    /\ scanned' = Append(scanned, i)
    /\ blocks' = Append(blocks, [time |-> i, n1 |-> N1, n2 |-> N2, n3 |-> N3,
                                 n4 |-> IF ExplicitSport THEN N4 ELSE None])
    /\ UNCHANGED <<lines, seed, pc, base_year, last_month, current_date_key,
                   warnings, calls, prev, args, ret>>

\* any other line: i += 1
OtherLine ==
    /\ AtOther
    /\ StepOver
    /\ UNCHANGED <<base_year, last_month, current_date_key, schedule, warnings>>

\* the loop ends; every day's list is sorted; return schedule, warnings
Finish ==
    /\ LoopDone
    /\ IF SortRaises
       THEN pc' = "raised" /\ UNCHANGED schedule
       ELSE /\ pc' = "returned"
            /\ schedule' = [dk \in DOMAIN schedule |-> SortByTime(schedule[dk])]
    /\ UNCHANGED <<lines, seed, i, base_year, last_month, current_date_key,
                   warnings, scanned, blocks, calls, prev, args, ret>>

\* what a call leaves when it ends, and what there is before the first call
Locals ==
    [i |-> i, base_year |-> base_year, last_month |-> last_month,
     current_date_key |-> current_date_key, schedule |-> schedule,
     warnings |-> warnings]

NoCallBefore ==
    [i |-> 0, base_year |-> 0, last_month |-> None,
     current_date_key |-> NoDate, schedule |-> <<>>, warnings |-> <<>>]

\* FreshLocals with last_month kept from the call before (a module global)
LocalsKeepMonth(year, left) ==
    [i |-> 0, base_year |-> year, last_month |-> left.last_month,
     current_date_key |-> NoDate, schedule |-> <<>>, warnings |-> <<>>]

\* FreshLocals with the first day of the year as the current date
LocalsWithDate(year, left) ==
    [i |-> 0, base_year |-> year, last_month |-> None,
     current_date_key |-> strftime(year, 1, 1), schedule |-> <<>>,
     warnings |-> <<>>]

\* the locals of a call in the year athens_now() gives, as lines 92-99 set
\* them: nothing of what the call before left is used
FreshLocals(year, left) ==
    [i |-> 0, base_year |-> year, last_month |-> None,
     current_date_key |-> NoDate, schedule |-> <<>>, warnings |-> <<>>]

\* parse_input is called again on the same text
CallAgain ==
    /\ pc = "returned"
    /\ calls < MaxCalls
    /\ calls' = calls + 1
    /\ prev' = <<schedule, warnings>>
    /\ pc' = "loop"
    /\ LET fresh == FreshLocals(seed, Locals)
       IN  /\ i' = fresh.i
           /\ base_year' = fresh.base_year
           /\ last_month' = fresh.last_month
           /\ current_date_key' = fresh.current_date_key
           /\ schedule' = fresh.schedule
           /\ warnings' = fresh.warnings
    /\ scanned' = <<>>
    /\ blocks' = <<>>
    /\ UNCHANGED <<lines, seed, args, ret>>

(***************************************************************************)
(* Input texts and specifications.                                         *)
(***************************************************************************)
\* the texts made of at most n fragments of frags, each a sequence of lines
RECURSIVE TextsOf(_, _)
TextsOf(frags, n) ==
    IF n = 0 THEN {<<>>}
    ELSE LET shorter == TextsOf(frags, n - 1)
         IN  shorter \cup {t \o f : t \in shorter, f \in frags}

\* the years athens_now() gives: the year before a leap year, and for the
\* texts built block by block a leap year too
Seeds == {2023}

BlockSeeds == {2023, 2024}

\* the state of a first call on text t in year y
Start(t, y) ==
    /\ lines = t
    /\ seed = y
    /\ pc = "loop"
    /\ LET fresh == FreshLocals(y, NoCallBefore)
       IN  /\ i = fresh.i
           /\ base_year = fresh.base_year
           /\ last_month = fresh.last_month
           /\ current_date_key = fresh.current_date_key
           /\ schedule = fresh.schedule
           /\ warnings = fresh.warnings
    /\ scanned = <<>>
    /\ blocks = <<>>
    /\ calls = 1
    /\ prev = <<>>
    /\ args = <<>>
    /\ ret = ""

\* single lines: a blank line, a date, an impossible date, a time, and a
\* sport line with a doubled space (as a field it holds a keyword of
\* another sport: `American Football` is a key of Αμερικανικό Ποδόσφαιρο)
LineVocab ==
    {<<" ">>, <<"1/12 ">>, <<"31/2">>, <<"\t21:30">>, <<"American  Football">>}

Init == \E t \in TextsOf(LineVocab, MaxLines) : \E y \in Seeds : Start(t, y)

Next ==
    \/ BlankLine
    \/ DateBuilt
    \/ DateFailed
    \/ NoDateSkip
    \/ TimeIncomplete
    \/ EventBlock
    \/ OtherLine
    \/ Finish

Spec == Init /\ [][Next]_vars

(***************************************************************************)
(* Texts built block by block: day headers and event blocks.               *)
(***************************************************************************)
\* day headers (29/2 exists in 2024 only), two blocks at 21:30 and one at
\* 09:05 with a blank line inside and a sport line that differs from what
\* its fields give, and a time line on its own
BlockVocab ==
    {<<"30/12">>, <<"2/1">>, <<"29/2">>,
     <<"21:30", "ERT 1", "Real Madrid - Barcelona", "La Liga">>,
     <<"21:30", "Nova", "Davis Cup", "ATP">>,
     <<"09:05", "NBA TV", "", "Lakers - Celtics", "NBA", "American Football">>,
     <<"23:59">>}

InitBlocks ==
    \E t \in TextsOf(BlockVocab, MaxBlocks) : \E y \in BlockSeeds : Start(t, y)

SpecBlocks == InitBlocks /\ [][Next]_vars

(***************************************************************************)
(* Texts of date lines, most of them no calendar dates (day 31 of          *)
(* February, month 13, month 0), with a block that holds a blank line and  *)
(* a lone time line.                                                       *)
(***************************************************************************)
RollVocab ==
    {<<"1/12">>, <<"31/2">>, <<"5/13">>, <<"7/0">>,
     <<"21:30", "ERT 1", "", "Real Madrid - Barcelona", "La Liga">>,
     <<"23:59">>}

InitRoll ==
    \E t \in TextsOf(RollVocab, MaxBlocks) : \E y \in Seeds : Start(t, y)

SpecRoll == InitRoll /\ [][Next]_vars

(***************************************************************************)
(* parse_input called more than once on the same text.                     *)
(***************************************************************************)
NextAgain == Next \/ CallAgain

InitAgain ==
    \E t \in TextsOf(BlockVocab, MaxBlocks) : \E y \in Seeds : Start(t, y)

SpecAgain == InitAgain /\ [][NextAgain]_vars

(***************************************************************************)
(* infer_sport on its own.                                                 *)
(***************************************************************************)
\* field texts: keys of several entries in either case, parts of keys that
\* join across fields, and texts without any key
FieldVocab ==
    {"", "x", "ATP", "atp finals", "Cup", "FA", "Super", "League",
     "Champions League", "CHAMPIONS LEAGUE", "Volley League", "nba",
     "Handball", "Playoffs", "Show"}

InitInfer ==
    /\ args \in FieldVocab \X FieldVocab \X FieldVocab
    /\ ret = ""
    /\ pc = "call"
    /\ lines = <<>>
    /\ seed \in Seeds
    /\ i = 0
    /\ base_year = seed
    /\ last_month = None
    /\ current_date_key = NoDate
    /\ schedule = <<>>
    /\ warnings = <<>>
    /\ scanned = <<>>
    /\ blocks = <<>>
    /\ calls = 0
    /\ prev = <<>>

\* sport = infer_sport(channel, match, comp)
Infer ==
    /\ pc = "call"
    /\ ret' = infer_sport(args[1], args[2], args[3])
    /\ pc' = "returned"
    /\ UNCHANGED <<lines, seed, i, base_year, last_month, current_date_key,
                   schedule, warnings, scanned, blocks, calls, prev, args>>

NextInfer == Infer

SpecInfer == InitInfer /\ [][NextInfer]_vars

(***************************************************************************)
(* Properties.  Helpers first: they read the text and the histories and    *)
(* use none of the parser's own helpers for the facts they state.          *)
(***************************************************************************)
\* an iteration of the main loop is about to run on line i
Scanning == pc = "loop" /\ i < NLines

\* the indices of the non-blank lines after line k
NonBlankAfter(k) == {j \in (k + 1)..(NLines - 1) : strip(Line(j)) # ""}

\* the n-th non-blank line after line k (n >= 1), None if there is none
RECURSIVE NthAfter(_, _)
NthAfter(k, n) ==
    LET rest == NonBlankAfter(k)
    IN  IF rest = {} THEN None
        ELSE IF n = 1 THEN SetMin(rest) ELSE NthAfter(SetMin(rest), n - 1)

\* minutes since midnight of a time HH:MM
ClockMinutes(t) == 60 * int(SubSeq(t, 1, 2)) + int(SubSeq(t, 4, 5))

\* the event the step has just appended to the current day
Appended == schedule'[current_date_key][Len(schedule'[current_date_key])]

\* the step records an event
RecordsEvent == Len(blocks') = Len(blocks) + 1

\* the indices, in scan order, of the scanned lines that match D/M
RECURSIVE DateLinesOf(_)
DateLinesOf(seq) ==
    IF seq = <<>> THEN <<>>
    ELSE IF DATE_RE(Line(Head(seq)))
         THEN <<Head(seq)>> \o DateLinesOf(Tail(seq))
         ELSE DateLinesOf(Tail(seq))

MonthOfLine(k) == int(DateGroup2(Line(k)))

DayOfLine(k) == int(DateGroup1(Line(k)))

\* the months of the scanned date lines, in scan order
ScannedMonths ==
    LET ds == DateLinesOf(scanned) IN [k \in 1..Len(ds) |-> MonthOfLine(ds[k])]

\* the number of strict decreases between consecutive members of ms
Decreases(ms) == Cardinality({k \in 2..Len(ms) : ms[k] < ms[k - 1]})

\* w is the warning of a failed date line of the text
IsDateWarning(w) == \E k \in 0..(NLines - 1) : w = DateWarning(strip(Line(k)))

\* w is the warning of an incomplete block of the text
IsMissingWarning(w) ==
    \E k \in 0..(NLines - 1) : \E dk \in DOMAIN schedule :
        w = MissingWarning(normalize_spaces(Line(k)), dk)

\* every date line scanned so far was built into a date
AllDatesBuilt == \A k \in 1..Len(warnings) : ~IsDateWarning(warnings[k])

(***************************************************************************)
(* C1: when parse_input returns, every day's events are in non-decreasing  *)
(* order of (hour, minute), and events of a day with equal times are in    *)
(* the order of their time lines in the input.                             *)
(***************************************************************************)
C1_SortedStable ==
    pc = "returned" =>
        \A dk \in DOMAIN schedule :
            \A a, b \in 1..Len(schedule[dk]) :
                a < b =>
                    LET ta == ClockMinutes(schedule[dk][a].time)
                        tb == ClockMinutes(schedule[dk][b].time)
                    IN  \/ ta < tb
                        \/ ta = tb /\ schedule[dk][a].line < schedule[dk][b].line

\* a returned day holds two events with equal times and an event that the
\* sort moved in front of one scanned before it
C1_Witness ==
    /\ pc = "returned"
    /\ \E dk \in DOMAIN schedule :
           /\ \E a, b \in 1..Len(schedule[dk]) :
                  /\ a < b
                  /\ schedule[dk][a].time = schedule[dk][b].time
                  /\ schedule[dk][a].channel # schedule[dk][b].channel
           /\ \E a, b \in 1..Len(schedule[dk]) :
                  a < b /\ schedule[dk][a].line > schedule[dk][b].line

(***************************************************************************)
(* C2: while every scanned date line is a valid date, the inferred year is *)
(* the seed plus the number of strict month decreases between consecutive  *)
(* scanned date lines (so it stays at the seed while the months do not     *)
(* decrease and grows by exactly one at each decrease), and it never       *)
(* decreases.                                                              *)
(***************************************************************************)
C2_YearFollowsMonths ==
    /\ [](AllDatesBuilt => base_year = seed + Decreases(ScannedMonths))
    /\ [][base_year' >= base_year]_vars

\* three valid date lines scanned, one decrease among them
C2_Witness ==
    /\ AllDatesBuilt
    /\ Len(ScannedMonths) >= 3
    /\ Decreases(ScannedMonths) = 1
    /\ base_year = seed + 1

(***************************************************************************)
(* C3: a step that records an event block takes the fourth non-blank line  *)
(* after the time line as the category, and moves the cursor past it, if   *)
(* its whitespace-normalized text is in the label set; otherwise the       *)
(* category is infer_sport of the three fields and the cursor stops right  *)
(* after the competition line.                                             *)
(***************************************************************************)
C3_ExplicitPreferred ==
    [][(Scanning /\ RecordsEvent) =>
          LET third == NthAfter(i, 3)
              fourth == NthAfter(i, 4)
          IN  IF fourth # None
                   /\ normalize_spaces(Line(fourth)) \in SPORT_LINE_SET
              THEN /\ Appended.sport = normalize_spaces(Line(fourth))
                   /\ i' = fourth + 1
              ELSE /\ Appended.sport =
                          infer_sport(Appended.channel, Appended.match,
                                      Appended.comp)
                   /\ i' = third + 1]_vars

\* an event whose explicit category, written with a doubled space, is not
\* what its fields give
C3_Witness ==
    \E k \in 1..Len(blocks) :
        /\ blocks[k].n4 # None
        /\ Line(blocks[k].n4) = "American  Football"
        /\ i >= blocks[k].n4 + 1
        /\ \E dk \in DOMAIN schedule : \E e \in 1..Len(schedule[dk]) :
               /\ schedule[dk][e].line = blocks[k].time
               /\ schedule[dk][e].sport = "American Football"
               /\ infer_sport(schedule[dk][e].channel, schedule[dk][e].match,
                              schedule[dk][e].comp) # "American Football"

(***************************************************************************)
(* C4: infer_sport returns the sport of the first entry of SPORT_KEYWORDS, *)
(* in table order, one of whose keys occurs in the haystack with case      *)
(* ignored, and "" when no entry has such a key.                           *)
(***************************************************************************)
\* the pairs (capital, small) of the letters of the alphabet
CasePairs ==
    {<<Char(UpperChars, q), Char(LowerChars, q)>> : q \in 1..Len(UpperChars)}

\* two characters that differ in case at most
SameLetter(c, d) == c = d \/ <<c, d>> \in CasePairs \/ <<d, c>> \in CasePairs

\* key occurs in hay, case ignored
OccursIn(hay, key) ==
    \E p \in 1..(Len(hay) - Len(key) + 1) :
        \A j \in 1..Len(key) : SameLetter(Char(hay, p + j - 1), Char(key, j))

\* the entries of the table with a key that occurs in hay
EntriesIn(hay) ==
    {e \in 1..Len(SPORT_KEYWORDS) :
        \E k \in 1..Len(SPORT_KEYWORDS[e][2]) :
            OccursIn(hay, SPORT_KEYWORDS[e][2][k])}

C4_FirstEntryWins ==
    (pc = "returned" /\ args # <<>>) =>
        LET hits == EntriesIn(args[1] \o " " \o args[2] \o " " \o args[3])
        IN  IF hits = {} THEN ret = ""
            ELSE ret = SPORT_KEYWORDS[SetMin(hits)][1]

\* a tennis key in small letters and the football key Cup: tennis is returned
C4_Witness ==
    /\ pc = "returned"
    /\ args = <<"Cup", "x", "atp finals">>
    /\ ret = "Τένις"
    /\ Cardinality(EntriesIn("Cup x atp finals")) >= 2

(***************************************************************************)
(* C5: a scanned time line, with a current date and fewer than three       *)
(* non-blank lines after it, appends exactly one warning, leaves the       *)
(* schedule and the current date as they are and moves the cursor by one.  *)
(***************************************************************************)
C5_IncompleteBlock ==
    [][(/\ Scanning
        /\ current_date_key # NoDate
        /\ TIME_RE(Line(i))
        /\ Cardinality(NonBlankAfter(i)) < 3) =>
          /\ Len(warnings') = Len(warnings) + 1
          /\ SubSeq(warnings', 1, Len(warnings)) = warnings
          /\ warnings'[Len(warnings')] =
                 MissingWarning(normalize_spaces(Line(i)), current_date_key)
          /\ schedule' = schedule
          /\ current_date_key' = current_date_key
          /\ i' = i + 1]_vars

\* the last iteration ran on a time line with one or two non-blank lines
\* after it, while a date was current
C5_Witness ==
    /\ pc = "loop"
    /\ current_date_key # NoDate
    /\ Len(scanned) > 0
    /\ Len(warnings) > 0
    /\ LET k == scanned[Len(scanned)]
       IN  /\ TIME_RE(Line(k))
           /\ Cardinality(NonBlankAfter(k)) \in {1, 2}
           /\ i = k + 1
           /\ IsMissingWarning(warnings[Len(warnings)])
           /\ \A dk \in DOMAIN schedule : \A e \in 1..Len(schedule[dk]) :
                  schedule[dk][e].line # k

(***************************************************************************)
(* C6: a scanned line that matches D/M but is no calendar date in the      *)
(* inferred year appends exactly one warning, the one naming the line,     *)
(* leaves the schedule as it is, clears the current date and moves the     *)
(* cursor by one; and while no date is current no iteration records an     *)
(* event.                                                                  *)
(***************************************************************************)
MonthDays == <<31, 28, 31, 30, 31, 30, 31, 31, 30, 31, 30, 31>>

\* day d of month m exists in year y
RealDate(y, m, d) ==
    /\ m \in 1..12
    /\ d >= 1
    /\ d <= MonthDays[m]
              + (IF m = 2 /\ (y % 400 = 0 \/ (y % 4 = 0 /\ y % 100 # 0))
                 THEN 1 ELSE 0)

\* the number of events in the schedule
RECURSIVE EventCount(_, _)
EventCount(sched, keys) ==
    IF keys = {} THEN 0
    ELSE LET dk == CHOOSE d \in keys : TRUE
         IN  Len(sched[dk]) + EventCount(sched, keys \ {dk})

C6_DateFailure ==
    /\ [][(/\ Scanning
           /\ DATE_RE(Line(i))
           /\ ~RealDate(base_year', MonthOfLine(i), DayOfLine(i))) =>
             /\ Len(warnings') = Len(warnings) + 1
             /\ SubSeq(warnings', 1, Len(warnings)) = warnings
             /\ warnings'[Len(warnings')] = DateWarning(strip(Line(i)))
             /\ schedule' = schedule
             /\ current_date_key' = NoDate
             /\ i' = i + 1]_vars
    /\ [][(Scanning /\ current_date_key = NoDate) =>
             /\ EventCount(schedule', DOMAIN schedule')
                    = EventCount(schedule, DOMAIN schedule)
             /\ \A dk \in DOMAIN schedule : schedule'[dk] = schedule[dk]]_vars

\* after a built date, the last date line failed and a time line with three
\* non-blank lines after it was scanned without a current date
C6_Witness ==
    /\ pc = "returned"
    /\ current_date_key = NoDate
    /\ schedule # <<>>
    /\ \E a, b \in 1..Len(scanned) :
           /\ a < b
           /\ DATE_RE(Line(scanned[a]))
           /\ \A c \in (a + 1)..Len(scanned) : ~DATE_RE(Line(scanned[c]))
           /\ TIME_RE(Line(scanned[b]))
           /\ Cardinality(NonBlankAfter(scanned[b])) >= 3
    /\ Len(warnings) = 1
    /\ IsDateWarning(warnings[1])
    /\ EventCount(schedule, DOMAIN schedule) = 0

(***************************************************************************)
(* C7 as stated: when parse_input returns, every line of the text that     *)
(* matches D/M and is a calendar date in the inferred year has a key in    *)
(* the schedule, wherever the line stands.                                 *)
(***************************************************************************)
\* the year inferred at line k: the seed plus the strict month decreases
\* among the date lines scanned before line k, followed by line k itself
YearOfLine(k) ==
    LET ds == DateLinesOf(SelectSeq(scanned, LAMBDA j : j < k))
    IN  seed + Decreases([n \in 1..Len(ds) |-> MonthOfLine(ds[n])]
                             \o <<MonthOfLine(k)>>)

\* line k matches D/M and is a calendar date in the year inferred there
IsRealDateLine(k) ==
    /\ DATE_RE(Line(k))
    /\ RealDate(YearOfLine(k), MonthOfLine(k), DayOfLine(k))

\* the key of the date of line k
KeyOfLine(k) == strftime(YearOfLine(k), MonthOfLine(k), DayOfLine(k))

C7_EveryDateLineHasKey ==
    pc = "returned" =>
        \A k \in 0..(NLines - 1) :
            IsRealDateLine(k) => KeyOfLine(k) \in DOMAIN schedule

(***************************************************************************)
(* C7 amended: every line that was the scan target of an iteration,        *)
(* matches D/M and is a calendar date in the year inferred at that line    *)
(* has a key in the schedule from then on, also at return and also if its  *)
(* day has no event.  (A date line taken as channel, match or competition  *)
(* of an event block is never a scan target and creates no key.)           *)
(***************************************************************************)
\* the p-th iteration ran on a date line that is a calendar date
BuiltAt(p) == IsRealDateLine(scanned[p])

C7_ScannedDateLineHasKey ==
    \A p \in 1..Len(scanned) :
        BuiltAt(p) => KeyOfLine(scanned[p]) \in DOMAIN schedule

\* at return a day entered by a date line scanned after an event block has
\* no event
C7_Witness ==
    /\ pc = "returned"
    /\ EventCount(schedule, DOMAIN schedule) >= 1
    /\ \E p \in 2..Len(scanned) :
           /\ BuiltAt(p)
           /\ schedule[KeyOfLine(scanned[p])] = <<>>

(***************************************************************************)
(* C8: parse_input never raises and always ends: in every iteration the    *)
(* cursor grows (by one line, or past the three or four lines of a block)  *)
(* and stays within the text, no line is the scan target of two            *)
(* iterations, until the call has returned the loop either ends or one of  *)
(* the branches of an iteration applies, and at return the cursor is at    *)
(* the end of the text.                                                    *)
(***************************************************************************)
C8_Terminates ==
    /\ [](pc # "raised")
    /\ [](pc = "loop" =>
             LoopDone \/ AtBlank \/ AtDate \/ AtNoDate \/ AtTime \/ AtOther)
    /\ [](i <= NLines /\ Len(scanned) <= NLines)
    /\ [](\A a, b \in 1..Len(scanned) : a < b => scanned[a] < scanned[b])
    /\ [](pc = "returned" => i >= NLines)
    /\ [][Scanning =>
             /\ i' > i
             /\ \/ i' = i + 1
                \/ RecordsEvent /\ i' \in {NthAfter(i, 3) + 1, NthAfter(i, 4) + 1}
         ]_vars

\* a returned call whose cursor moved past a block of four lines after the
\* time line, and by single lines elsewhere
C8_Witness ==
    /\ pc = "returned"
    /\ i = NLines
    /\ NLines = MaxLines
    /\ \E b \in 1..Len(blocks) : blocks[b].n4 # None
    /\ Len(scanned) >= 2

(***************************************************************************)
(* C9: a second call of parse_input on the same text in the same year      *)
(* returns the schedule and the warnings the first call returned.          *)
(***************************************************************************)
C9_SameResultAgain ==
    (pc = "returned" /\ calls >= 2) => <<schedule, warnings>> = prev

\* a second call has returned a schedule with events, in an inferred year
\* after the seed year, and warnings
C9_Witness ==
    /\ pc = "returned"
    /\ calls = 2
    /\ warnings # <<>>
    /\ base_year > seed
    /\ EventCount(schedule, DOMAIN schedule) >= 2

(***************************************************************************)
(* C10: while no date is current, an iteration on a line that is not a     *)
(* date line changes neither the schedule nor the warnings and moves the   *)
(* cursor by one; and a call in which no scanned line was built into a     *)
(* date returns an empty schedule and no warning but those of failed date  *)
(* lines, so none of an incomplete block.                                  *)
(***************************************************************************)
C10_NothingWithoutDate ==
    /\ [][(Scanning /\ current_date_key = NoDate /\ ~DATE_RE(Line(i))) =>
             /\ schedule' = schedule
             /\ warnings' = warnings
             /\ i' = i + 1]_vars
    /\ []((pc = "returned" /\ \A p \in 1..Len(scanned) : ~BuiltAt(p)) =>
             /\ DOMAIN schedule = {}
             /\ \A w \in 1..Len(warnings) : IsDateWarning(warnings[w]))

\* a returned call that scanned a failed date line and then a time line
\* with three non-blank lines after it, and built no date
C10_Witness ==
    /\ pc = "returned"
    /\ \A p \in 1..Len(scanned) : ~BuiltAt(p)
    /\ DOMAIN schedule = {}
    /\ warnings # <<>>
    /\ \E p \in 1..Len(scanned) :
           /\ TIME_RE(Line(scanned[p]))
           /\ Cardinality(NonBlankAfter(scanned[p])) >= 3
           /\ \E q \in 1..(p - 1) : DATE_RE(Line(scanned[q]))

(***************************************************************************)
(* C11: a step that records an event block moves the cursor to the line    *)
(* right after the category line if the fourth non-blank line after the    *)
(* time line is a category label, and to the line right after the          *)
(* competition line otherwise; no line is a field (channel, match,         *)
(* competition or consumed category) of two events; no field line is ever  *)
(* the scan target of an iteration; and a fourth line that was not         *)
(* consumed and is a time or date line is scanned later and handled as a   *)
(* time line (event or incomplete-block warning) or as a date line (date   *)
(* built or date warning).                                                 *)
(***************************************************************************)
\* the lines block b used as fields
FieldsOf(b) ==
    {b.n1, b.n2, b.n3} \cup (IF b.n4 # None THEN {b.n4} ELSE {})

\* the lines that were scan targets so far
ScanTargets == {scanned[p] : p \in 1..Len(scanned)}

\* the fourth non-blank line after the time line of block b if the block
\* left it unconsumed, None otherwise
LeftFourth(b) == IF b.n4 # None THEN None ELSE NthAfter(b.time, 4)

\* the cursor is on the unconsumed fourth line of the block recorded last
AtLeftFourth ==
    /\ Scanning
    /\ Len(blocks) > 0
    /\ LeftFourth(blocks[Len(blocks)]) = i

C11_FieldsUsedOnce ==
    /\ [][(Scanning /\ RecordsEvent) =>
             LET third == NthAfter(i, 3)
                 fourth == NthAfter(i, 4)
                 label == /\ fourth # None
                          /\ normalize_spaces(Line(fourth)) \in SPORT_LINE_SET
             IN  /\ i' = (IF label THEN fourth + 1 ELSE third + 1)
                 /\ FieldsOf(blocks'[Len(blocks')]) =
                        {NthAfter(i, 1), NthAfter(i, 2), third}
                            \cup (IF label THEN {fourth} ELSE {})]_vars
    /\ [](\A a, b \in 1..Len(blocks) :
             a # b => FieldsOf(blocks[a]) \cap FieldsOf(blocks[b]) = {})
    /\ [](\A b \in 1..Len(blocks) : FieldsOf(blocks[b]) \cap ScanTargets = {})
    /\ [](pc = "returned" =>
             \A b \in 1..Len(blocks) :
                 LET q == LeftFourth(blocks[b])
                 IN  (q # None /\ (TIME_RE(Line(q)) \/ DATE_RE(Line(q))))
                         => q \in ScanTargets)
    /\ [][(AtLeftFourth /\ TIME_RE(Line(i))) =>
             IF Cardinality(NonBlankAfter(i)) >= 3
             THEN /\ RecordsEvent
                  /\ Appended.line = i
                  /\ Appended.time = normalize_spaces(Line(i))
             ELSE warnings' = Append(warnings,
                      MissingWarning(normalize_spaces(Line(i)),
                                     current_date_key))]_vars
    /\ [][(AtLeftFourth /\ DATE_RE(Line(i))) =>
             /\ last_month' = MonthOfLine(i)
             /\ IF IsRealDateLine(i)
                THEN /\ current_date_key' = KeyOfLine(i)
                     /\ KeyOfLine(i) \in DOMAIN schedule'
                     /\ warnings' = warnings
                ELSE /\ current_date_key' = NoDate
                     /\ warnings' = Append(warnings,
                                           DateWarning(strip(Line(i))))]_vars

\* a returned call with a block that consumed its category line and a
\* later block whose unconsumed fourth line, a time or date line, was scanned
C11_Witness ==
    /\ pc = "returned"
    /\ \E a, b \in 1..Len(blocks) :
           /\ a < b
           /\ blocks[a].n4 # None
           /\ LET q == LeftFourth(blocks[b])
              IN  /\ q # None
                  /\ TIME_RE(Line(q)) \/ DATE_RE(Line(q))
                  /\ q \in ScanTargets

(***************************************************************************)
(* C12: in every state, every event in schedule[k] has date_key k, and k   *)
(* is the key of the most recent date line scanned before the event's time *)
(* line, which is a calendar date; the current date key, when set, is a    *)
(* key of the schedule; and a step that adds an event runs with a current  *)
(* date set and adds it to the list of that date.                          *)
(***************************************************************************)
\* the scanned date lines before line k, in scan order
DateLinesBefore(k) == DateLinesOf(SelectSeq(scanned, LAMBDA j : j < k))

C12_EventsUnderTheirDate ==
    /\ [](\A dk \in DOMAIN schedule : \A e \in 1..Len(schedule[dk]) :
             LET ev == schedule[dk][e]
                 ds == DateLinesBefore(ev.line)
             IN  /\ ev.date_key = dk
                 /\ ds # <<>>
                 /\ IsRealDateLine(ds[Len(ds)])
                 /\ KeyOfLine(ds[Len(ds)]) = dk)
    /\ [](current_date_key # NoDate => current_date_key \in DOMAIN schedule)
    /\ [][EventCount(schedule', DOMAIN schedule')
              > EventCount(schedule, DOMAIN schedule) =>
             /\ current_date_key # NoDate
             /\ Len(schedule'[current_date_key])
                    = Len(schedule[current_date_key]) + 1]_vars

\* a returned call with events under two days, the second of them in the
\* year after the seed year
C12_Witness ==
    /\ pc = "returned"
    /\ \E d1, d2 \in DOMAIN schedule :
           /\ d1 # d2
           /\ schedule[d1] # <<>>
           /\ schedule[d2] # <<>>
           /\ \E e \in 1..Len(schedule[d2]) :
                  Len(DateLinesBefore(schedule[d2][e].line)) >= 2
    /\ base_year > seed

(***************************************************************************)
(* C13: a step on a date line whose key is already in the schedule leaves  *)
(* the whole schedule as it is (the day's events and every other day) and  *)
(* makes that key the current date; a step that records an event appends   *)
(* it to the list of the current date and changes no other day; so the     *)
(* event of every recorded block is, from then on, in the list of the day  *)
(* that was current, exactly once.                                         *)
(***************************************************************************)
\* the number of events of day dk whose time line is line k
EventsOfLine(dk, k) ==
    Cardinality({e \in 1..Len(schedule[dk]) : schedule[dk][e].line = k})

\* the key that was current when line k was scanned
DateAt(k) == KeyOfLine(DateLinesBefore(k)[Len(DateLinesBefore(k))])

C13_MetAgainKeepsEvents ==
    /\ [][(/\ Scanning
           /\ IsRealDateLine(i)
           /\ KeyOfLine(i) \in DOMAIN schedule) =>
             /\ schedule' = schedule
             /\ current_date_key' = KeyOfLine(i)]_vars
    /\ [][(Scanning /\ RecordsEvent) =>
             /\ DOMAIN schedule' = DOMAIN schedule
             /\ schedule'[current_date_key]
                    = Append(schedule[current_date_key], Appended)
             /\ \A dk \in DOMAIN schedule \ {current_date_key} :
                    schedule'[dk] = schedule[dk]]_vars
    /\ [](\A b \in 1..Len(blocks) : \A dk \in DOMAIN schedule :
             EventsOfLine(dk, blocks[b].time)
                 = (IF dk = DateAt(blocks[b].time) THEN 1 ELSE 0))

\* a returned day holds an event recorded before and an event recorded
\* after a second date line of that day was scanned
C13_Witness ==
    /\ pc = "returned"
    /\ \E dk \in DOMAIN schedule : \E a, b \in 1..Len(schedule[dk]) :
           \E p \in 1..Len(scanned) :
               /\ schedule[dk][a].line < scanned[p]
               /\ scanned[p] < schedule[dk][b].line
               /\ IsRealDateLine(scanned[p])
               /\ KeyOfLine(scanned[p]) = dk

(***************************************************************************)
(* C14: every iteration on a line that matches D/M, a calendar date or     *)
(* not, sets last_month to its month and adds one to the inferred year if  *)
(* that month is less than the last_month before; no other step changes    *)
(* either; so in every state the inferred year is the seed plus the number *)
(* of strict month decreases between consecutive scanned D/M lines.        *)
(***************************************************************************)
C14_RolloverBeforeValidation ==
    /\ [][(Scanning /\ DATE_RE(Line(i))) =>
             /\ last_month' = MonthOfLine(i)
             /\ base_year' =
                    (IF last_month # None /\ MonthOfLine(i) < last_month
                     THEN base_year + 1 ELSE base_year)]_vars
    /\ [][~(Scanning /\ DATE_RE(Line(i))) =>
             base_year' = base_year /\ last_month' = last_month]_vars
    /\ [](base_year = seed + Decreases(ScannedMonths))

\* a returned call in which a line that is no calendar date rolled the
\* year, a line with a month outside 1..12 was scanned, and a date was
\* built in a rolled year afterwards
C14_Witness ==
    /\ pc = "returned"
    /\ base_year > seed
    /\ current_date_key # NoDate
    /\ LET ds == DateLinesOf(scanned)
       IN  /\ \E p \in 2..Len(ds) :
                  /\ ~IsRealDateLine(ds[p])
                  /\ MonthOfLine(ds[p]) < MonthOfLine(ds[p - 1])
           /\ \E p \in 1..Len(ds) : MonthOfLine(ds[p]) \notin 1..12
           /\ Decreases(ScannedMonths) = base_year - seed

(***************************************************************************)
(* C15: for a haystack in which Champions League occurs, case ignored,     *)
(* infer_sport returns the sport of the first or of the second entry of    *)
(* the table, Tennis or Volleyball, and never Football, whatever football  *)
(* keys the haystack holds as well.                                        *)
(***************************************************************************)
\* the haystack of the call
CallHay == args[1] \o " " \o args[2] \o " " \o args[3]

\* keys that only the football entry lists
FootballOnlyKeys == {"Cup", "Super League", "FA Cup"}

C15_ChampionsLeagueNotFootball ==
    (pc = "returned" /\ args # <<>> /\ OccursIn(CallHay, "Champions League"))
        => /\ ret \in {"Τένις", "Βόλεϊ"}
           /\ ret # "Ποδόσφαιρο"

\* a call whose haystack holds Champions League in capitals next to keys of
\* the football entry only, and no tennis key, has returned Volleyball
C15_Witness ==
    /\ pc = "returned"
    /\ args # <<>>
    /\ OccursIn(CallHay, "Champions League")
    /\ args[2] = "CHAMPIONS LEAGUE"
    /\ \E k \in FootballOnlyKeys : OccursIn(CallHay, k)
    /\ ret = "Βόλεϊ"

=============================================================================
